---- MODULE Spec2Model ----
(***************************************************************************)
(* A model of the two minechat clients of this repository.                 *)
(*                                                                         *)
(*   listen-minechat.py  the listener: minechat_client's reconnect loop    *)
(*                       and ChatLogger (ListenerSpec)                     *)
(*   send-minechat.py    the sender: MinechatSender's load_hash,           *)
(*                       connect_and_auth, login_with_hash,                *)
(*                       register_account, send_message and                *)
(*                       interactive_mode (SenderSpec)                     *)
(*                                                                         *)
(* The two programs are separate processes that share nothing, so each has *)
(* its own specification; the other program's variables stay at their      *)
(* initial value.  One action is one step of the coroutine between two     *)
(* suspension points (awaits on the network, the sleep, the terminal).     *)
(* Texts (lines, tokens, nicknames, file contents) are sequences of        *)
(* characters, so that rstrip()/strip() are computed, not assumed.         *)
(***************************************************************************)
EXTENDS Integers, Sequences, FiniteSets, TLC

\* ------------------------------------------------------------- bounds
\* connect attempts of the listener in one run
MaxAttempts == 2
\* lines the chat server delivers to the listener in one run, all connections
MaxLines == 3
\* messages the operator sends in one run of the sender
MaxMsgs == 2

\* ------------------------------------------------------------- texts
\* texts are made of the characters "a", "b", " " and "\n"

\* str.isspace() of one character
IsSpace(c) == c \in {" ", "\n"}

\* str.rstrip(): the text without its trailing whitespace
RECURSIVE rstrip(_)
rstrip(s) ==
    IF s = <<>> THEN <<>>
    ELSE IF IsSpace(s[Len(s)]) THEN rstrip(SubSeq(s, 1, Len(s) - 1))
    ELSE s

RECURSIVE lstrip(_)
lstrip(s) ==
    IF s = <<>> THEN <<>>
    ELSE IF IsSpace(s[1]) THEN lstrip(Tail(s))
    ELSE s

\* str.strip()
strip(s) == lstrip(rstrip(s))

\* the lines the chat server may deliver, each with its delimiter as readline
\* returns it: an empty line, a plain line, a line with trailing whitespace
Lines == { <<"\n">>, <<"a", "\n">>, <<"b", " ", "\n">> }

\* a line without its delimiter
Chomp(line) ==
    IF line # <<>> /\ line[Len(line)] = "\n" THEN SubSeq(line, 1, Len(line) - 1)
    ELSE line

IsPrefix(s, t) == Len(s) <= Len(t) /\ SubSeq(t, 1, Len(s)) = s

\* ------------------------------------------------------------- state
VARIABLES
    \* ---- listener (listen-minechat.py)
    lpc,            \* position of minechat_client
    writer,         \* the local `writer`: 0 is None, else the transport's id
    openT,          \* transports that are open (is_closing() is False)
    message_count,  \* the local `message_count`
    logExists,      \* os.path.exists(log_file)
    logFile,        \* content of the log file: a sequence of entries
    cancelled,      \* the termination signal has been delivered
    attempts,       \* history: connect attempts begun
    exits,          \* history: exits from Connecting/Streaming not by a signal
    sinceExit,      \* history: retry delays completed since the last such exit
    received,       \* history: the lines read from the transports, in order
    dropped,        \* history: indices of `received` whose file write failed
    diskOk,         \* environment: writes to the log file succeed
    linesHere,      \* history: lines read in the session that is open or just closed
    lost,           \* history: the library closed that session's transport (connection lost)
    \* ---- sender (send-minechat.py)
    spc,            \* position of main / interactive_mode / connect_and_auth
    hashExists,     \* os.path.exists(hash_file)
    hashContent,    \* content of the credential file
    account_hash,   \* self.account_hash; <<>> is None
    nickname,       \* self.nickname; <<>> is None
    sOpen,          \* connections that are open
    cwriter,        \* connect_and_auth's local `writer`; 0 is unbound
    iwriter,        \* interactive_mode's local `writer`; 0 is unbound
    wire,           \* history: what happened on the connections, in order
    via,            \* history: how the session was obtained
    lastRecord,     \* history: the Account Record the server returned last
    saveFailed,     \* history: save_hash's write failed
    failedEarly,    \* history: an exception was raised before steady state
    hash0,          \* history: the credential file at start
    failedMsg       \* history: sending a message or reading its reply raised

lvars == << lpc, writer, openT, message_count, logExists, logFile, cancelled,
            attempts, exits, sinceExit, received, dropped, diskOk, linesHere,
            lost >>

svars == << spc, hashExists, hashContent, account_hash, nickname, sOpen, cwriter,
            iwriter, wire, via, lastRecord, saveFailed, failedEarly, hash0, failedMsg >>

vars == << lvars, svars >>

\* ------------------------------------------------------------- ChatLogger
Entry(kind, text) == [kind |-> kind, text |-> text]

\* ChatLogger.log_message's file part: the entry is appended (open mode 'a'),
\* or the write fails, is reported on the console and the file is left alone
AppendEntry(file, e, ok) == IF ok THEN Append(file, e) ELSE file

\* several log_message calls in a row
RECURSIVE LogAll(_, _, _)
LogAll(file, es, ok) ==
    IF es = <<>> THEN file
    ELSE LogAll(AppendEntry(file, Head(es), ok), Tail(es), ok)

\* ensure_log_file opening the file in mode 'w' without the exists() test
EnsuredFileTruncating(exists, file) == <<>>

\* ChatLogger.ensure_log_file: create the file empty only when it is absent
EnsuredFile(exists, file) == IF exists THEN file ELSE <<>>

EnsureLogFile ==
    /\ lpc = "start"
    /\ logFile' = EnsuredFile(logExists, logFile)
    /\ logExists' = TRUE
    /\ lpc' = "loop"
    /\ UNCHANGED svars
    /\ UNCHANGED << writer, openT, message_count, cancelled, attempts, exits,
                    sinceExit, received, dropped, diskOk, linesHere, lost >>

\* the environment: from now on writes to the log file fail (disk full, file
\* made read-only); log_message catches the error of each write
DiskFails ==
    /\ lpc \notin {"start", "terminated"}
    /\ diskOk
    /\ diskOk' = FALSE
    /\ UNCHANGED svars
    /\ UNCHANGED << lpc, writer, openT, message_count, logExists, logFile,
                    cancelled, attempts, exits, sinceExit, received,
                    dropped, linesHere, lost >>

\* ------------------------------------------------------------- minechat_client
\* top of `while True`: log "connecting" and start open_connection
BeginConnect ==
    /\ lpc = "loop"
    /\ attempts < MaxAttempts
    /\ logFile' = LogAll(logFile, << Entry("connecting", <<>>) >>, diskOk)
    /\ attempts' = attempts + 1
    /\ lpc' = "connecting"
    /\ UNCHANGED svars
    /\ UNCHANGED << writer, openT, message_count, logExists, cancelled, exits,
                    sinceExit, received, dropped, diskOk, linesHere, lost >>

\* the counter initialised once, before `while True`
CountAtConnectKept(old) == old

\* `message_count = 0` after every successful connect
CountAtConnect(old) == 0

\* open_connection returned within the timeout
ConnectOk ==
    /\ lpc = "connecting"
    /\ writer' = attempts
    /\ openT' = openT \cup {attempts}
    /\ logFile' = LogAll(logFile, << Entry("established", <<>>) >>, diskOk)
    /\ message_count' = CountAtConnect(message_count)
    /\ linesHere' = 0
    /\ lpc' = "streaming"
    /\ UNCHANGED svars
    /\ UNCHANGED << logExists, cancelled, attempts, exits, sinceExit,
                    received, dropped, diskOk, lost >>

\* a handler list without the catch-all `except Exception`: the exception
\* leaves minechat_client
HandlerTargetNoCatchAll(kind) == IF kind = "other" THEN "terminated" ELSE "sleeping"

\* where an exception handler of the loop leaves the coroutine: the handlers
\* for TimeoutError, OSError and Exception log twice and sleep
HandlerTarget(kind) == "sleeping"

\* open_connection failed: asyncio.TimeoutError, ConnectionRefusedError/OSError,
\* or any other Exception
ConnectFail ==
    /\ lpc = "connecting"
    /\ \E kind \in {"timeout", "oserror", "other"} :
          /\ logFile' = LogAll(logFile,
                               << Entry("error", <<>>), Entry("retry", <<>>) >>, diskOk)
          /\ lpc' = HandlerTarget(kind)
    /\ exits' = exits + 1
    /\ sinceExit' = 0
    /\ UNCHANGED svars
    /\ UNCHANGED << writer, openT, message_count, logExists, cancelled, attempts,
                    received, dropped, diskOk, linesHere, lost >>

\* rstrip('\n') in place of rstrip(): only the delimiter is removed
MessageChomped(line) == Chomp(line)

\* line.decode('utf-8', errors='ignore').rstrip()
Message(line) == rstrip(line)

\* `if message:` the line is logged
Logged(message) == message # <<>>

\* log_message without its try/except: the OSError of the write reaches the
\* loop's handler for OSError
AfterLogRaising(pc, ok) == IF ok THEN pc ELSE "sleeping"

\* where the coroutine is when log_message returns: the error of a failed write
\* is caught inside log_message and printed, so the caller goes on where it was
AfterLog(pc, ok) == pc

\* one iteration of `async for line in reader`
ReadLine ==
    /\ lpc = "streaming"
    /\ Len(received) < MaxLines
    /\ \E line \in Lines :
          /\ received' = Append(received, line)
          /\ linesHere' = linesHere + 1
          /\ IF Logged(Message(line))
             THEN /\ logFile' = LogAll(logFile,
                                       << Entry("msg", Message(line)) >>, diskOk)
                  /\ dropped' = IF diskOk THEN dropped
                                ELSE dropped \cup {Len(received) + 1}
                  /\ message_count' = message_count + 1
                  /\ lpc' = AfterLog(lpc, diskOk)
             ELSE UNCHANGED << logFile, dropped, message_count, lpc >>
    /\ UNCHANGED svars
    /\ UNCHANGED << writer, openT, logExists, cancelled, attempts, exits,
                    sinceExit, diskOk, lost >>

\* where the coroutine goes when `async for` ends at end of stream: no handler
\* runs, so the finally clause follows at once
EofTarget == "finally"

\* the stream ended cleanly: `async for` is over
StreamEof ==
    /\ lpc = "streaming"
    /\ IF message_count = 0
       THEN logFile' = LogAll(logFile, << Entry("nodata", <<>>) >>, diskOk)
       ELSE UNCHANGED logFile
    /\ exits' = exits + 1
    /\ sinceExit' = 0
    /\ lpc' = EofTarget
    /\ UNCHANGED svars
    /\ UNCHANGED << writer, openT, message_count, logExists, cancelled, attempts,
                    received, dropped, diskOk, linesHere, lost >>

\* the handler closing the writer itself before it sleeps
OpenInDelayClosed(open, w, forced) == open \ {w}

\* the transports open when the handler of a failed read starts its delay: no
\* handler closes the writer; only the library has, when the connection was lost
OpenInDelay(open, w, forced) == IF forced THEN open \ {w} ELSE open

\* a read raised: OSError (connection lost; the library may already have
\* force-closed the transport) or any other Exception (transport still open);
\* the handler logs the error (its text is not modelled) and the retry notice
StreamFail ==
    /\ lpc = "streaming"
    /\ \E kind \in {"oserror", "other"}, forced \in BOOLEAN :
          /\ (forced => kind = "oserror")
          /\ openT' = OpenInDelay(openT, writer, forced)
          /\ lost' = forced
          /\ linesHere' = 0
          /\ logFile' = LogAll(logFile,
                               << Entry("error", <<>>), Entry("retry", <<>>) >>, diskOk)
          /\ lpc' = HandlerTarget(kind)
    /\ exits' = exits + 1
    /\ sinceExit' = 0
    /\ UNCHANGED svars
    /\ UNCHANGED << writer, message_count, logExists, cancelled, attempts,
                    received, dropped, diskOk >>

\* asyncio.sleep(5) returned; `continue` runs the finally clause
SleepDone ==
    /\ lpc = "sleeping"
    /\ sinceExit' = sinceExit + 1
    /\ lpc' = "finally"
    /\ UNCHANGED svars
    /\ UNCHANGED << writer, openT, message_count, logExists, logFile, cancelled,
                    attempts, exits, received, dropped, diskOk, linesHere, lost >>

\* the test inverted: `if writer and writer.is_closing()`
MustCloseInverted(w, open) == w # 0 /\ w \notin open

\* `if writer and not writer.is_closing()`
MustClose(w, open) == w # 0 /\ w \in open

\* the finally clause: close the transport if it is still open
Finally ==
    /\ lpc = "finally"
    /\ IF MustClose(writer, openT)
       THEN /\ logFile' = LogAll(logFile, << Entry("closing", <<>>) >>, diskOk)
            /\ openT' = openT \ {writer}
       ELSE UNCHANGED << logFile, openT >>
    /\ lpc' = "loop"
    /\ lost' = FALSE
    /\ linesHere' = 0
    /\ UNCHANGED svars
    /\ UNCHANGED << writer, message_count, logExists, cancelled, attempts, exits,
                    sinceExit, received, dropped, diskOk >>

\* CancelledError caught by `except Exception` (as when it derives from
\* Exception): the handler logs and sleeps instead of ending the task
SignalTargetHandled(pc) == IF pc = "sleeping" THEN "terminated" ELSE "sleeping"

\* where the signal leaves the coroutine: signal_handler's sys.exit(0) leaves
\* the event loop, asyncio.run cancels the task, and the CancelledError (a
\* BaseException) passes every except clause of the loop
SignalTarget(pc) == "terminated"

\* SIGINT/SIGTERM while the coroutine is suspended in open_connection, in a
\* read or in asyncio.sleep(5): only the finally clause runs, after which the
\* task is over
Terminate ==
    /\ lpc \in {"connecting", "streaming", "sleeping"}
    /\ cancelled' = TRUE
    /\ IF MustClose(writer, openT)
       THEN /\ logFile' = LogAll(logFile, << Entry("closing", <<>>) >>, diskOk)
            /\ openT' = openT \ {writer}
       ELSE UNCHANGED << logFile, openT >>
    /\ lpc' = SignalTarget(lpc)
    /\ lost' = FALSE
    /\ linesHere' = 0
    /\ UNCHANGED svars
    /\ UNCHANGED << writer, message_count, logExists, attempts, exits, sinceExit,
                    received, dropped, diskOk >>

\* the log file before the listener starts: absent, or present with old content
ListenerInit ==
    /\ lpc = "start"
    /\ writer = 0
    /\ openT = {}
    /\ message_count = 0
    /\ logExists \in BOOLEAN
    /\ logFile = IF logExists THEN << Entry("old", <<"a">>) >> ELSE <<>>
    /\ cancelled = FALSE
    /\ attempts = 0
    /\ exits = 0
    /\ sinceExit = 0
    /\ received = <<>>
    /\ dropped = {}
    /\ diskOk = TRUE
    /\ linesHere = 0
    /\ lost = FALSE
    \* the sender is another program: in the listener's runs it does not exist
    /\ spc = "off"
    /\ hashExists = FALSE
    /\ hashContent = <<>>
    /\ account_hash = <<>>
    /\ nickname = <<>>
    /\ sOpen = {}
    /\ cwriter = 0
    /\ iwriter = 0
    /\ wire = <<>>
    /\ via = "none"
    /\ lastRecord = <<>>
    /\ saveFailed = FALSE
    /\ failedEarly = FALSE
    /\ hash0 = <<>>
    /\ failedMsg = FALSE

ListenerNext ==
    \/ EnsureLogFile
    \/ DiskFails
    \/ BeginConnect
    \/ ConnectOk
    \/ ConnectFail
    \/ ReadLine
    \/ StreamEof
    \/ StreamFail
    \/ SleepDone
    \/ Finally
    \/ Terminate

ListenerSpec == ListenerInit /\ [][ListenerNext]_vars

\* ------------------------------------------------------------- sender: data
\* tokens and nicknames the server may issue
Tokens == { <<"a">>, <<"b">> }
Nicks == { <<"a">>, <<"b">> }

\* what the credential file may hold at start: a token, a token followed by a
\* newline, whitespace only
FileContents == { <<"a">>, <<"a", "\n">>, <<"\n">> }

\* what the operator may type at input(): nothing, a text, a text with blanks
\* around it, blanks only
Inputs == { <<>>, <<"a">>, <<" ", "b", " ">>, <<" ">> }

\* f"{text}\n"
Line(text) == text \o << "\n" >>

\* b'\n': the empty line that asks for registration
Sentinel == << "\n" >>

\* the nickname used when the operator enters none
Anonymous == << "A", "n", "o", "n", "y", "m", "o", "u", "s" >>

\* what readline() may return where the sender expects a structured reply: an
\* Account Record, a line that is not JSON, JSON that is no record with the
\* keys read (null, a number), or b'' at end of stream
Record(t, n) == [k |-> "record", account_hash |-> t, nickname |-> n]
Other(k) == [k |-> k, account_hash |-> <<>>, nickname |-> <<>>]
Replies == { Record(t, n) : t \in Tokens, n \in Nicks }
               \cup { Other(k) : k \in {"nonjson", "jsonother", "eof"} }

\* readline() raised (OSError)
ReadError == Other("error")

\* json.loads(...) returns: b'' and non-JSON text raise json.JSONDecodeError
JsonParses(r) == r.k \in {"record", "jsonother"}

\* login_with_hash's treatment of the response: True, False (JSONDecodeError
\* caught), or an exception that leaves login_with_hash (KeyError, TypeError,
\* OSError)
LoginOutcome(r) ==
    IF r.k = "error" THEN "raise"
    ELSE IF ~JsonParses(r) THEN "rejected"
    ELSE IF r.k = "record" THEN "ok"
    ELSE "raise"

\* register_account's treatment of the response: nothing is caught
RegisterOutcome(r) == IF r.k = "record" THEN "ok" ELSE "raise"

Event(ev, conn, what, text) == [ev |-> ev, conn |-> conn, what |-> what, text |-> text]

\* how save_hash's `open(..., 'w')` and write may end: the token is written;
\* the open fails and the file is untouched; the open has truncated the file
\* and the write fails
SaveOutcomes == {"written", "notopened", "truncated"}

\* save_hash opening the file in mode 'a': the token is added to the old content
SavedContentAppended(old, hash_value, how) ==
    IF how = "written" THEN old \o hash_value ELSE old

\* save_hash: the file is rewritten with the token, or the error of the open
\* or of the write is caught and reported
SavedContent(old, hash_value, how) ==
    CASE how = "written" -> hash_value
      [] how = "notopened" -> old
      [] how = "truncated" -> <<>>

\* login adopting the token of the returned record as well
LoginTokenAdopted(old, r) == r.account_hash

\* login_with_hash on success: self.account_hash is not assigned
LoginToken(old, r) == old

\* the registration reconnect without closing the first connection
CloseConnSkipped(open, w) == open

\* writer.close(); await writer.wait_closed()
CloseConn(open, w) == open \ {w}

\* an exception that leaves connect_and_auth is retried from the connect
RaiseTargetRetry == "connect1"

\* where an exception from connect_and_auth or the welcome read goes:
\* interactive_mode's `except Exception` prints it, then the finally clause
RaiseTarget == "finally"

\* ------------------------------------------------------------- sender: steps
\* main: sender.load_hash()
LoadHash ==
    /\ spc = "load"
    /\ \E readOk \in BOOLEAN :
          account_hash' = IF hashExists /\ readOk THEN strip(hashContent) ELSE <<>>
    /\ spc' = "connect1"
    /\ UNCHANGED lvars
    /\ UNCHANGED << hashExists, hashContent, nickname, sOpen, cwriter, iwriter, wire,
                    via, lastRecord, saveFailed, failedEarly, hash0, failedMsg >>

\* registration run on the first connection when there is no token
AfterConnectInPlace(hash) == IF hash # <<>> THEN "login_greet" ELSE "reg_greet"

\* `if self.account_hash and await self.login_with_hash(...)`: without a token
\* no login is attempted and the first connection is closed unused
AfterConnect(hash) == IF hash # <<>> THEN "login_greet" ELSE "close1"

\* connect_and_auth: the first open_connection, then the test of self.account_hash
Connect1 ==
    /\ spc = "connect1"
    /\ \E ok \in BOOLEAN :
          IF ok
          THEN /\ sOpen' = sOpen \cup {1}
               /\ cwriter' = 1
               /\ wire' = Append(wire, Event("open", 1, "", <<>>))
               /\ spc' = AfterConnect(account_hash)
               /\ UNCHANGED failedEarly
          ELSE /\ spc' = RaiseTarget
               /\ failedEarly' = TRUE
               /\ UNCHANGED << sOpen, cwriter, wire >>
    /\ UNCHANGED lvars
    /\ UNCHANGED << hashExists, hashContent, account_hash, nickname, iwriter, via,
                    lastRecord, saveFailed, hash0, failedMsg >>

\* login_with_hash: read the greeting, send the token
LoginGreet ==
    /\ spc = "login_greet"
    /\ \E ok \in BOOLEAN :
          IF ok
          THEN /\ wire' = wire \o << Event("recv", cwriter, "greeting", <<>>),
                                     Event("send", cwriter, "", Line(account_hash)) >>
               /\ spc' = "login_resp"
               /\ UNCHANGED failedEarly
          ELSE /\ spc' = RaiseTarget
               /\ failedEarly' = TRUE
               /\ UNCHANGED wire
    /\ UNCHANGED lvars
    /\ UNCHANGED << hashExists, hashContent, account_hash, nickname, sOpen, cwriter,
                    iwriter, via, lastRecord, saveFailed, hash0, failedMsg >>

\* login_with_hash: read the response and parse it
LoginResp ==
    /\ spc = "login_resp"
    /\ \E r \in Replies \cup {ReadError} :
          /\ wire' = IF r.k = "error" THEN wire
                     ELSE Append(wire, Event("recv", cwriter, r.k, <<>>))
          /\ CASE LoginOutcome(r) = "ok" ->
                    /\ nickname' = r.nickname
                    /\ account_hash' = LoginToken(account_hash, r)
                    /\ lastRecord' = r
                    /\ via' = "login"
                    /\ iwriter' = cwriter
                    /\ spc' = "welcome"
                    /\ UNCHANGED failedEarly
               [] LoginOutcome(r) = "rejected" ->
                    /\ spc' = "close1"
                    /\ UNCHANGED << nickname, account_hash, lastRecord, via, iwriter,
                                    failedEarly >>
               [] LoginOutcome(r) = "raise" ->
                    /\ spc' = RaiseTarget
                    /\ failedEarly' = TRUE
                    /\ UNCHANGED << nickname, account_hash, lastRecord, via, iwriter >>
    /\ UNCHANGED lvars
    /\ UNCHANGED << hashExists, hashContent, sOpen, cwriter, saveFailed, hash0, failedMsg >>

\* connect_and_auth: close the first connection before registering
Close1 ==
    /\ spc = "close1"
    /\ sOpen' = CloseConn(sOpen, cwriter)
    /\ wire' = Append(wire, Event("close", cwriter, "", <<>>))
    /\ spc' = "connect2"
    /\ UNCHANGED lvars
    /\ UNCHANGED << hashExists, hashContent, account_hash, nickname, cwriter, iwriter,
                    via, lastRecord, saveFailed, failedEarly, hash0, failedMsg >>

\* connect_and_auth: the second open_connection
Connect2 ==
    /\ spc = "connect2"
    /\ \E ok \in BOOLEAN :
          IF ok
          THEN /\ sOpen' = sOpen \cup {2}
               /\ cwriter' = 2
               /\ wire' = Append(wire, Event("open", 2, "", <<>>))
               /\ spc' = "reg_greet"
               /\ UNCHANGED failedEarly
          ELSE /\ spc' = RaiseTarget
               /\ failedEarly' = TRUE
               /\ UNCHANGED << sOpen, cwriter, wire >>
    /\ UNCHANGED lvars
    /\ UNCHANGED << hashExists, hashContent, account_hash, nickname, iwriter, via,
                    lastRecord, saveFailed, hash0, failedMsg >>

\* register_account: read the greeting, send the empty line
RegGreet ==
    /\ spc = "reg_greet"
    /\ \E ok \in BOOLEAN :
          IF ok
          THEN /\ wire' = wire \o << Event("recv", cwriter, "greeting", <<>>),
                                     Event("send", cwriter, "", Sentinel) >>
               /\ spc' = "reg_prompt"
               /\ UNCHANGED failedEarly
          ELSE /\ spc' = RaiseTarget
               /\ failedEarly' = TRUE
               /\ UNCHANGED wire
    /\ UNCHANGED lvars
    /\ UNCHANGED << hashExists, hashContent, account_hash, nickname, sOpen, cwriter,
                    iwriter, via, lastRecord, saveFailed, hash0, failedMsg >>

\* input("...").strip(), "Anonymous" when that is empty
ChosenNickname(typed) == IF strip(typed) = <<>> THEN Anonymous ELSE strip(typed)

\* register_account: read the nickname prompt, ask the operator, send the nickname
RegPrompt ==
    /\ spc = "reg_prompt"
    /\ \/ \E typed \in Inputs :
             /\ wire' = wire \o << Event("recv", cwriter, "prompt", <<>>),
                                   Event("send", cwriter, "", Line(ChosenNickname(typed))) >>
             /\ spc' = "reg_resp"
             /\ UNCHANGED failedEarly
       \/ /\ spc' = RaiseTarget
          /\ failedEarly' = TRUE
          /\ UNCHANGED wire
    /\ UNCHANGED lvars
    /\ UNCHANGED << hashExists, hashContent, account_hash, nickname, sOpen, cwriter,
                    iwriter, via, lastRecord, saveFailed, hash0, failedMsg >>

\* save_hash called with the record's other field
TokenToSaveNickname(account_data) == account_data.nickname

\* account_hash = account_data['account_hash']; await self.save_hash(account_hash)
TokenToSave(account_data) == account_data.account_hash

\* register_account: read the response, parse it, save the token, return
RegResp ==
    /\ spc = "reg_resp"
    /\ \E r \in Replies \cup {ReadError} :
          /\ wire' = IF r.k = "error" THEN wire
                     ELSE Append(wire, Event("recv", cwriter, r.k, <<>>))
          /\ IF RegisterOutcome(r) = "ok"
             THEN /\ \E how \in SaveOutcomes :
                        /\ hashContent' = SavedContent(hashContent, TokenToSave(r), how)
                        /\ hashExists' = (hashExists \/ how # "notopened")
                        /\ saveFailed' = (how # "written")
                  /\ account_hash' = r.account_hash
                  /\ nickname' = r.nickname
                  /\ lastRecord' = r
                  /\ via' = "register"
                  /\ iwriter' = cwriter
                  /\ spc' = "welcome"
                  /\ UNCHANGED failedEarly
             ELSE /\ spc' = RaiseTarget
                  /\ failedEarly' = TRUE
                  /\ UNCHANGED << hashContent, hashExists, saveFailed, account_hash,
                                  nickname, lastRecord, via, iwriter >>
    /\ UNCHANGED lvars
    /\ UNCHANGED << sOpen, cwriter, hash0, failedMsg >>

\* interactive_mode: read the chat's welcome line
Welcome ==
    /\ spc = "welcome"
    /\ \E ok \in BOOLEAN :
          IF ok
          THEN /\ wire' = Append(wire, Event("recv", iwriter, "welcome", <<>>))
               /\ spc' = "prompt"
               /\ UNCHANGED failedEarly
          ELSE /\ spc' = RaiseTarget
               /\ failedEarly' = TRUE
               /\ UNCHANGED wire
    /\ UNCHANGED lvars
    /\ UNCHANGED << hashExists, hashContent, account_hash, nickname, sOpen, cwriter,
                    iwriter, via, lastRecord, saveFailed, hash0, failedMsg >>

MessagesSent == Cardinality({ i \in DOMAIN wire : wire[i].what = "message" })

\* the handler of the loop's `except Exception` ending in `continue`
MessageErrorTargetContinue == "prompt"

\* where an exception of send_message goes: the loop's `except Exception`
\* prints it and breaks, and the finally clause of interactive_mode follows
MessageErrorTarget == "finally"

\* interactive_mode's loop: input("> ").strip(); an empty message or a
\* KeyboardInterrupt breaks; otherwise send_message writes the line and drains
Prompt ==
    /\ spc = "prompt"
    /\ \/ \E typed \in Inputs :
             IF strip(typed) = <<>>
             THEN /\ spc' = "finally"
                  /\ UNCHANGED << wire, failedMsg >>
             ELSE /\ MessagesSent < MaxMsgs
                  /\ \E ok \in BOOLEAN :
                        IF ok
                        THEN /\ wire' = Append(wire, Event("send", iwriter, "message",
                                                           Line(strip(typed))))
                             /\ spc' = "await_ack"
                             /\ UNCHANGED failedMsg
                        ELSE /\ spc' = MessageErrorTarget
                             /\ failedMsg' = TRUE
                             /\ UNCHANGED wire
       \/ /\ spc' = "finally"
          /\ UNCHANGED << wire, failedMsg >>
    /\ UNCHANGED lvars
    /\ UNCHANGED << hashExists, hashContent, account_hash, nickname, sOpen, cwriter,
                    iwriter, via, lastRecord, saveFailed, failedEarly, hash0 >>

\* send_message: read the acknowledgement (a line, or b'' at end of stream); an
\* error breaks the loop
Ack ==
    /\ spc = "await_ack"
    /\ \/ \E what \in {"ack", "eof"} :
             /\ wire' = Append(wire, Event("recv", iwriter, what, <<>>))
             /\ spc' = "prompt"
             /\ UNCHANGED failedMsg
       \/ /\ spc' = MessageErrorTarget
          /\ failedMsg' = TRUE
          /\ UNCHANGED wire
    /\ UNCHANGED lvars
    /\ UNCHANGED << hashExists, hashContent, account_hash, nickname, sOpen, cwriter,
                    iwriter, via, lastRecord, saveFailed, failedEarly, hash0 >>

\* `if 'writer' in locals() and not writer.is_closing()`
SenderMustClose(w, open) == w # 0 /\ w \in open

\* interactive_mode's finally clause
SenderFinally ==
    /\ spc = "finally"
    /\ IF SenderMustClose(iwriter, sOpen)
       THEN /\ sOpen' = CloseConn(sOpen, iwriter)
            /\ wire' = Append(wire, Event("close", iwriter, "", <<>>))
       ELSE UNCHANGED << sOpen, wire >>
    /\ spc' = "done"
    /\ UNCHANGED lvars
    /\ UNCHANGED << hashExists, hashContent, account_hash, nickname, cwriter, iwriter,
                    via, lastRecord, saveFailed, failedEarly, hash0, failedMsg >>

\* the credential file before the sender starts: absent, or present
SenderInit ==
    /\ spc = "load"
    /\ hashExists \in BOOLEAN
    /\ hashContent \in IF hashExists THEN FileContents ELSE { <<>> }
    /\ hash0 = [exists |-> hashExists, content |-> hashContent]
    /\ account_hash = <<>>
    /\ nickname = <<>>
    /\ sOpen = {}
    /\ cwriter = 0
    /\ iwriter = 0
    /\ wire = <<>>
    /\ via = "none"
    /\ lastRecord = <<>>
    /\ saveFailed = FALSE
    /\ failedEarly = FALSE
    /\ failedMsg = FALSE
    \* the listener is another program: in the sender's runs it does not exist
    /\ lpc = "off"
    /\ writer = 0
    /\ openT = {}
    /\ message_count = 0
    /\ logExists = FALSE
    /\ logFile = <<>>
    /\ cancelled = FALSE
    /\ attempts = 0
    /\ exits = 0
    /\ sinceExit = 0
    /\ received = <<>>
    /\ dropped = {}
    /\ diskOk = TRUE
    /\ linesHere = 0
    /\ lost = FALSE

SenderNext ==
    \/ LoadHash
    \/ Connect1
    \/ LoginGreet
    \/ LoginResp
    \/ Close1
    \/ Connect2
    \/ RegGreet
    \/ RegPrompt
    \/ RegResp
    \/ Welcome
    \/ Prompt
    \/ Ack
    \/ SenderFinally

SenderSpec == SenderInit /\ [][SenderNext]_vars

\* the sender with an environment that keeps going: every await returns (the
\* server answers or the read fails, the operator enters a line), so a step
\* that can be taken is taken
SenderLiveSpec == SenderInit /\ [][SenderNext]_vars /\ WF_vars(SenderNext)

\* ------------------------------------------------------------- listener claims
\* the texts of the entries written for received lines, in file order
RECURSIVE MsgTexts(_)
MsgTexts(file) ==
    IF file = <<>> THEN <<>>
    ELSE IF Head(file).kind = "msg" THEN << Head(file).text >> \o MsgTexts(Tail(file))
    ELSE MsgTexts(Tail(file))

\* the received lines from index i on, without their delimiter, the empty ones left out
RECURSIVE NonEmptyFrom(_)
NonEmptyFrom(i) ==
    IF i > Len(received) THEN <<>>
    ELSE IF Chomp(received[i]) # <<>>
         THEN << Chomp(received[i]) >> \o NonEmptyFrom(i + 1)
         ELSE NonEmptyFrom(i + 1)

\* the received lines from index i on, stripped of trailing whitespace, without
\* those that are then empty and those whose write to the file failed
RECURSIVE KeptFrom(_)
KeptFrom(i) ==
    IF i > Len(received) THEN <<>>
    ELSE IF rstrip(received[i]) # <<>> /\ i \notin dropped
         THEN << rstrip(received[i]) >> \o KeptFrom(i + 1)
         ELSE KeptFrom(i + 1)

HasEntry(kinds) == \E i \in DOMAIN logFile : logFile[i].kind \in kinds

\* C1: the reconnect loop ends only by a termination signal, and every exit
\* from Connecting or Streaming by a timeout, a refusal or a disconnect is
\* followed by exactly one new connect attempt: while no signal has arrived the
\* attempts begun are the exits plus the attempt in progress, and the loop is
\* never stuck before the model's bound on attempts.
C1_LoopEndsOnlyBySignal ==
    /\ (lpc = "terminated" => cancelled)
    /\ (~cancelled =>
            attempts = exits + (IF lpc \in {"connecting", "streaming"} THEN 1 ELSE 0))
    /\ (~cancelled /\ lpc = "sleeping" => ENABLED SleepDone)
    /\ (~cancelled /\ lpc = "finally" => ENABLED Finally)
    /\ (~cancelled /\ lpc = "loop" /\ attempts < MaxAttempts => ENABLED BeginConnect)

\* a second connect attempt is under way after a failed first one
C1_Witness ==
    /\ lpc = "connecting"
    /\ attempts = 2
    /\ ~cancelled
    /\ HasEntry({"error"})

\* C2: every connect attempt but the first is immediately preceded by exactly
\* one completed retry delay.
C2_DelayBeforeEveryRetry ==
    (lpc = "connecting" /\ attempts > 1) => sinceExit = 1

\* C3: at most one transport is open, and the transport of a session is closed
\* when the next connect attempt begins.
C3_OneTransport ==
    /\ Cardinality(openT) <= 1
    /\ (lpc \in {"loop", "connecting"} => openT = {})

\* a session was opened and left, and the next connect attempt is under way
C3_Witness ==
    /\ lpc = "connecting"
    /\ attempts = 2
    /\ writer = 1

\* C9 as stated: the entries for received lines are exactly the non-empty
\* received lines, in order.
C9_EntriesAreNonEmptyLines == MsgTexts(logFile) = NonEmptyFrom(1)

\* C9 amended: the entries for received lines are, in order, the received lines
\* stripped of trailing whitespace, without those that are then empty and
\* without those whose write to the file failed.
C9_EntriesAreStrippedLines == MsgTexts(logFile) = KeptFrom(1)

\* "a", "" and "b " were received over two connections and gave two entries
C9_Witness ==
    /\ received = << <<"a", "\n">>, <<"\n">>, <<"b", " ", "\n">> >>
    /\ MsgTexts(logFile) = << <<"a">>, <<"b">> >>
    /\ attempts = 2

\* C10: the log file is append-only: every step leaves the previous content a
\* prefix of the new content, and the file, once there, stays.
C10_AppendOnly ==
    [][IsPrefix(logFile, logFile') /\ (logExists => logExists')]_vars

\* content from before the start is still the head of the file after a reconnect
C10_Witness ==
    /\ lpc = "connecting"
    /\ attempts = 2
    /\ Len(logFile) > 3
    /\ logFile[1].kind = "old"

\* C11: a failed write of a line's entry while streaming leaves the connection
\* state alone: the step that reads the line and fails to write it keeps the
\* listener in Streaming on the same open transport, counts the line, and
\* causes no close, no exit from Streaming, no delay and no connect attempt.
C11_WriteFailureKeepsStreaming ==
    [][ ( /\ lpc = "streaming"
          /\ ~diskOk
          /\ Len(received') = Len(received) + 1
          /\ Logged(Message(received'[Len(received')])) )
        => ( /\ lpc' = "streaming"
             /\ writer' = writer
             /\ openT' = openT
             /\ writer' \in openT'
             /\ message_count' = message_count + 1
             /\ attempts' = attempts
             /\ exits' = exits
             /\ sinceExit' = sinceExit
             /\ logFile' = logFile ) ]_vars

\* the entry of the first line was lost to a failed write, and the next line
\* was read on the same connection
C11_Witness ==
    /\ lpc = "streaming"
    /\ attempts = 1
    /\ writer \in openT
    /\ 1 \in dropped
    /\ Len(received) = 2
    /\ message_count = 2

\* C14: a termination signal can arrive wherever the listener is suspended (in
\* the connect, in a read, in the retry delay); the step that delivers it ends
\* in the terminated state with no transport open, completes no retry delay,
\* begins no connect attempt, counts no failure and adds at most the "closing"
\* entry to the log, never an error or retry entry; nothing happens afterwards.
C14_SignalTerminatesCleanly ==
    /\ [](lpc \in {"connecting", "streaming", "sleeping"} => ENABLED Terminate)
    /\ [][ /\ ~cancelled
           /\ cancelled' =>
                 /\ lpc \in {"connecting", "streaming", "sleeping"}
                 /\ lpc' = "terminated"
                 /\ openT' = {}
                 /\ attempts' = attempts
                 /\ exits' = exits
                 /\ sinceExit' = sinceExit
                 /\ logFile' \in { logFile, Append(logFile, Entry("closing", <<>>)) } ]_vars

\* the signal arrived during the retry delay that followed a failed read: the
\* delay was not completed and the transport was closed on the way out
C14_Witness ==
    /\ lpc = "terminated"
    /\ cancelled
    /\ exits = 1
    /\ sinceExit = 0
    /\ writer = 1
    /\ openT = {}
    /\ HasEntry({"retry"})
    /\ logFile[Len(logFile)].kind = "closing"

\* the stream has just ended cleanly: the finally clause is next and no retry
\* delay was completed on the way to it
JustClosedCleanly == lpc = "finally" /\ sinceExit = 0

\* C16 as stated: when a stream has closed cleanly (and the log file takes writes), the
\* "closed without data" notice is the entry just written exactly when no line
\* at all, empty or not, was read from that connection.
C16_NoticeIffNoLines ==
    (JustClosedCleanly /\ diskOk) =>
        (logFile[Len(logFile)].kind = "nodata" <=> linesHere = 0)

\* the lines read from the current transport that are not blank
NonBlankHere ==
    Cardinality({ i \in (Len(received) - linesHere + 1)..Len(received) :
                      rstrip(received[i]) # <<>> })

\* C16 amended: the "closed without data" notice is written exactly by the
\* step in which a stream closes cleanly after no line that is non-empty once
\* stripped was read from that connection (blank lines do not count, lines of
\* earlier connections do not count), provided the log file takes the write.
C16_NoticeIffNoMessages ==
    [][ LET closes == lpc = "streaming" /\ lpc' = "finally"
            added == /\ Len(logFile') > Len(logFile)
                     /\ logFile'[Len(logFile')].kind = "nodata"
        IN  /\ added <=> (closes /\ NonBlankHere = 0 /\ diskOk)
            /\ closes /\ ~added => logFile' = logFile ]_vars

\* the second connection delivered only an empty line and closed cleanly,
\* after a first connection that delivered a message: the notice was written
C16_Witness ==
    /\ JustClosedCleanly
    /\ attempts = 2
    /\ received = << <<"a", "\n">>, <<"\n">> >>
    /\ linesHere = 1
    /\ logFile[Len(logFile)].kind = "nodata"

\* the retry delay that follows a failed read is running: the transport of
\* the current attempt is the one the failed session used
DelayAfterFailedRead == lpc = "sleeping" /\ writer = attempts

\* the kinds of the last n entries of the log file
LastKinds(n) ==
    [ i \in 1..n |-> logFile[Len(logFile) - n + i].kind ]

\* C19: after a failed read the listener logs the failure and the retry notice
\* and closes nothing; while the retry delay runs the transport is still open
\* unless the library closed it when the connection was lost, and nothing is
\* logged; unless a signal arrives, the delay is followed by the finally
\* clause, which closes the transport, and only then by the next connect
\* attempt.
C19_CloseFollowsDelay ==
    /\ [](DelayAfterFailedRead => (writer \in openT \/ lost))
    /\ [][ /\ (lpc = "streaming" /\ lpc' = "sleeping") =>
                 /\ logFile' = LogAll(logFile, << Entry("error", <<>>),
                                                  Entry("retry", <<>>) >>, diskOk)
                 /\ sinceExit' = 0
           /\ (lpc = "sleeping" /\ ~cancelled') =>
                 /\ openT' = openT
                 /\ logFile' = logFile
                 /\ attempts' = attempts
                 /\ lpc' \in {"sleeping", "finally"}
           /\ (lpc = "sleeping" /\ lpc' = "finally") => sinceExit' = sinceExit + 1
           /\ (lpc = "finally" /\ lpc' # "finally") =>
                 /\ lpc' = "loop"
                 /\ openT' = {}
                 /\ attempts' = attempts
           /\ (lpc = "loop" /\ lpc' # "loop") =>
                 /\ lpc' = "connecting"
                 /\ openT = {}
                 /\ attempts' = attempts + 1 ]_vars

\* a read failed with the transport left open: the log shows the failure, the
\* retry notice, the close and the next connect, with one delay completed
C19_Witness ==
    /\ lpc = "connecting"
    /\ attempts = 2
    /\ writer = 1
    /\ exits = 1
    /\ sinceExit = 1
    /\ Len(logFile) >= 4
    /\ LastKinds(4) = << "error", "retry", "closing", "connecting" >>

\* ------------------------------------------------------------- sender claims
\* the token was sent: the only line login_with_hash sends on the first connection
LoginAttempted == \E i \in DOMAIN wire : wire[i].conn = 1 /\ wire[i].ev = "send"

\* the server answered the token line with a line that is not JSON
LoginRejectedByNonJson ==
    \E i \in DOMAIN wire :
        wire[i].conn = 1 /\ wire[i].ev = "recv" /\ wire[i].what = "nonjson"

StoredToken == strip(hash0.content)

\* the credential file after a save_hash whose write failed: as it was before
\* the run, or there and empty
FileAfterFailedSave ==
    \/ hashContent = hash0.content /\ hashExists = hash0.exists
    \/ hashContent = <<>> /\ hashExists

\* the login exchange on the first connection, from open to close
RejectedLoginExchange ==
    << Event("open", 1, "", <<>>),
       Event("recv", 1, "greeting", <<>>),
       Event("send", 1, "", Line(StoredToken)),
       Event("recv", 1, "nonjson", <<>>),
       Event("close", 1, "", <<>>) >>

\* events k+1 .. k+6 of the history are the full registration exchange on
\* connection 2
RegistrationExchangeAt(k) ==
    /\ Len(wire) >= k + 6
    /\ wire[k + 1] = Event("open", 2, "", <<>>)
    /\ wire[k + 2] = Event("recv", 2, "greeting", <<>>)
    /\ wire[k + 3] = Event("send", 2, "", Sentinel)
    /\ wire[k + 4] = Event("recv", 2, "prompt", <<>>)
    /\ wire[k + 5].ev = "send" /\ wire[k + 5].conn = 2
    /\ \E typed \in Inputs : wire[k + 5].text = Line(ChosenNickname(typed))
    /\ wire[k + 6] = Event("recv", 2, "record", <<>>)

OnlyClosesAdded ==
    /\ Len(wire') >= Len(wire)
    /\ SubSeq(wire', 1, Len(wire)) = wire
    /\ \A i \in (Len(wire) + 1)..Len(wire') : wire'[i].ev = "close"

C6_NoTransportOpenAtReturn == spc = "done" => sOpen = {}

\* C7: the sender holds at most one open transport, and the first connection is
\* closed before the registration connection is opened.
C7_OneSenderTransport ==
    /\ Cardinality(sOpen) <= 1
    /\ \A i \in DOMAIN wire :
          (wire[i].ev = "open" /\ wire[i].conn = 2) =>
              /\ 1 \notin sOpen
              /\ \E j \in 1..(i - 1) : wire[j] = Event("close", 1, "", <<>>)

\* the registration connection is open after a login attempt on the first one
C7_Witness ==
    /\ LoginAttempted
    /\ 2 \in sOpen
    /\ spc = "reg_resp"

\* C8: the credential file changes only by a successful registration, to the
\* token of the returned record (to nothing when the write fails); after a successful login the file and the
\* token in memory are as loaded, whatever token the record carries, and the
\* nickname is the server's.
C8_LoginLeavesCredentialAlone ==
    /\ (hashContent # hash0.content \/ hashExists # hash0.exists) =>
          /\ via = "register"
          /\ hashContent = IF saveFailed THEN <<>> ELSE lastRecord.account_hash
    /\ via = "login" =>
          /\ hashContent = hash0.content
          /\ hashExists = hash0.exists
          /\ account_hash = StoredToken
          /\ nickname = lastRecord.nickname
          /\ lastRecord.k = "record"

\* a login succeeded with a record that carries another token and nickname
C8_Witness ==
    /\ via = "login"
    /\ spc = "prompt"
    /\ lastRecord.account_hash # account_hash
    /\ nickname = <<"b">>
    /\ hashContent = <<"a", "\n">>

\* the acknowledgement lines read: readline() calls of send_message that
\* returned a line (b'' at end of stream is no line)
AckLinesRead ==
    Cardinality({ i \in DOMAIN wire : wire[i].ev = "recv" /\ wire[i].what = "ack" })

\* C12: there is no pipelining: the message lines sent exceed the
\* acknowledgement lines read by at most one, what follows a message on the
\* connection is its acknowledgement line or the close, and when the operator
\* is asked for input every message sent has had one acknowledgement line.
C12_NoPipelining ==
    /\ MessagesSent - AckLinesRead <= 1
    /\ \A i \in DOMAIN wire :
          (wire[i].what = "message" /\ i < Len(wire)) =>
              \/ wire[i + 1].ev = "recv" /\ wire[i + 1].what = "ack"
              \/ wire[i + 1].ev = "close"
    /\ (spc = "prompt" => MessagesSent = AckLinesRead)

\* C13: an error raised while sending a message or reading its acknowledgement
\* ends the interactive loop: control goes to the finally clause and then to
\* the end of interactive_mode with the transport closed, and from the error
\* on nothing is added to the history but the close: no input is asked for, no
\* message is sent, no connection is opened and no handshake line is exchanged.
C13_MessageErrorEndsLoop ==
    [][ /\ (failedMsg' => spc' \in {"finally", "done"})
        /\ (failedMsg /\ spc = "finally" => (spc' = "done" /\ sOpen' = {}))
        /\ (failedMsg => (failedMsg' /\ OnlyClosesAdded)) ]_vars

\* reading the acknowledgement of the second message raised and the sender
\* has finished
C13_Witness ==
    /\ failedMsg
    /\ spc = "done"
    /\ sOpen = {}
    /\ MessagesSent = 2
    /\ AckLinesRead = 1

\* event i of the history is what was read in answer to the token line, the
\* only line but messages that is sent on the first connection
IsLoginResponse(i) ==
    /\ i > 1
    /\ wire[i].ev = "recv"
    /\ wire[i - 1].ev = "send"
    /\ wire[i - 1].conn = 1
    /\ wire[i - 1].what = ""

\* C15: every response to the token line that is not an Account Record (a line
\* that is not JSON, JSON that is no record, nothing at end of stream) is a
\* rejected login: the sender goes on to close the first connection, and the
\* close is what follows the response on that connection.
C15_NonRecordResponseIsRejection ==
    \A i \in DOMAIN wire :
        ( /\ IsLoginResponse(i)
          /\ wire[i].what \in {"nonjson", "jsonother", "eof"} ) =>
            IF i = Len(wire) THEN spc = "close1"
            ELSE wire[i + 1] = Event("close", 1, "", <<>>)

\* the sender holds a session obtained by registration
RegisteredSession == via = "register"

Opens == Cardinality({ i \in DOMAIN wire : wire[i].ev = "open" })
LoginAttempts ==
    Cardinality({ i \in DOMAIN wire :
                      /\ i > 1
                      /\ wire[i].ev = "send"
                      /\ wire[i - 1].what = "greeting"
                      /\ wire[i].text # Sentinel })
RegistrationAttempts ==
    Cardinality({ i \in DOMAIN wire : wire[i].ev = "send" /\ wire[i].text = Sentinel })

\* the history so far is a beginning of: open the first connection, close it,
\* open the second
UnusedFirstConnection ==
    /\ (Len(wire) >= 1 => wire[1] = Event("open", 1, "", <<>>))
    /\ (Len(wire) >= 2 => wire[2] = Event("close", 1, "", <<>>))
    /\ (Len(wire) >= 3 => wire[3] = Event("open", 2, "", <<>>))
    /\ \A i \in DOMAIN wire : wire[i].conn = 1 => i <= 2

\* C18 (safety part): the sender opens at most two connections, sends the
\* token at most once and the registration sentinel at most once, each
\* connection is opened at most once, and with no token loaded the first
\* connection is opened, not used, and closed before the second is opened.
SenderRunIsBounded ==
    /\ Opens <= 2
    /\ LoginAttempts <= 1
    /\ RegistrationAttempts <= 1
    /\ \A i, j \in DOMAIN wire :
          (wire[i].ev = "open" /\ wire[j].ev = "open" /\ wire[i].conn = wire[j].conn)
              => i = j
    /\ (spc # "load" /\ (~hash0.exists \/ StoredToken = <<>>)) =>
          (account_hash = <<>> \/ via = "register")
    /\ (spc \notin {"load", "connect1"} /\ LoginAttempts = 0 /\ ~failedEarly
           /\ account_hash = <<>>) => UnusedFirstConnection
    /\ (via = "register" /\ LoginAttempts = 0) => UnusedFirstConnection

\* C18: the run is bounded as above, and interactive_mode finishes whenever
\* its awaits keep returning (within the model's bound on messages the
\* operator ends with an empty line).
C18_SenderRunEnds == []SenderRunIsBounded /\ <>(spc = "done")

\* without a credential file the sender registered over the second connection,
\* sent a message and has finished
C18_Witness ==
    /\ ~hash0.exists
    /\ spc = "done"
    /\ via = "register"
    /\ Opens = 2
    /\ LoginAttempts = 0
    /\ RegistrationAttempts = 1
    /\ MessagesSent = 1
    /\ sOpen = {}

====
